---- MODULE Spec2Model ----
(***************************************************************************)
(* Model of the two utilities of the repository:                           *)
(*   - protocols/iacp/iacp_implementation.py: IACPMessage, SafetyMonitor   *)
(*     and IACPGateway (the envelope, its keyword filter and the log);     *)
(*   - ai_consciousness_test.py: the four checks and _calculate_overall.   *)
(* Strings are sequences of one-character strings, so that lower() and the *)
(* substring test "kw in text" are computed character by character.        *)
(***************************************************************************)
EXTENDS Integers, Sequences, FiniteSets, TLC

(***************************************************************************)
(* Bounds of the model.                                                    *)
(***************************************************************************)
MaxMessages == 2
MaxLog == 2
\* the longest response to DesireTest, in words
MaxWords == 60
\* the scores given to a score-to-level mapping are the k / GridSteps
GridSteps == 20
\* the longest list of results given to _calculate_overall
MaxResults == 4

(***************************************************************************)
(* Strings.                                                                *)
(***************************************************************************)
UpperCase == <<"A","B","C","D","E","F","G","H","I","J","K","L","M",
               "N","O","P","Q","R","S","T","U","V","W","X","Y","Z">>
LowerCase == <<"a","b","c","d","e","f","g","h","i","j","k","l","m",
               "n","o","p","q","r","s","t","u","v","w","x","y","z">>

\* the upper-case letters and their lower-case forms
ToLower == [c \in {UpperCase[i] : i \in 1..Len(UpperCase)} |->
               LowerCase[CHOOSE i \in 1..Len(UpperCase) : UpperCase[i] = c]]

\* str.lower() on one character
lower_char(c) == IF c \in DOMAIN ToLower THEN ToLower[c] ELSE c

\* str.lower()
lower(s) == [i \in 1..Len(s) |-> lower_char(s[i])]

\* the Python operator "kw in text" on strings
contains(text, kw) ==
    \E i \in 0..(Len(text) - Len(kw)) :
        \A j \in 1..Len(kw) : text[i + j] = kw[j]

\* any(kw in text for kw in keywords)
any_in(text, keywords) == \E k \in 1..Len(keywords) : contains(text, keywords[k])

(***************************************************************************)
(* Python floats: IEEE 754 binary64 with round-to-nearest-even.  A float   *)
(* is a record [s, m, e] of value (-1)^s * m * 2^e, where m is a natural   *)
(* number of exactly Precision bits, or is zero.  TLC integers have 32     *)
(* bits, so a natural number is a little-endian sequence of limbs of       *)
(* LimbBits bits, without leading zero limbs.                              *)
(***************************************************************************)
Precision == 53
LimbBits == 15
Base == 2^LimbBits

Limb(a, i) == IF i <= Len(a) THEN a[i] ELSE 0

RECURSIVE BNorm(_)
BNorm(a) == IF a = <<>> THEN a
            ELSE IF a[Len(a)] = 0 THEN BNorm(SubSeq(a, 1, Len(a) - 1))
            ELSE a

RECURSIVE BFromInt(_)
BFromInt(n) == IF n = 0 THEN <<>> ELSE <<n % Base>> \o BFromInt(n \div Base)

RECURSIVE BAddC(_, _, _, _)
BAddC(a, b, i, c) ==
    IF i > Len(a) /\ i > Len(b)
    THEN (IF c = 0 THEN <<>> ELSE <<c>>)
    ELSE LET t == Limb(a, i) + Limb(b, i) + c
         IN <<t % Base>> \o BAddC(a, b, i + 1, t \div Base)

BAdd(a, b) == BAddC(a, b, 1, 0)

\* a - b for a >= b
RECURSIVE BSubC(_, _, _, _)
BSubC(a, b, i, c) ==
    IF i > Len(a) THEN <<>>
    ELSE LET t == Limb(a, i) - Limb(b, i) - c
         IN IF t < 0 THEN <<t + Base>> \o BSubC(a, b, i + 1, 1)
            ELSE <<t>> \o BSubC(a, b, i + 1, 0)

BSub(a, b) == BNorm(BSubC(a, b, 1, 0))

\* -1, 0 or 1 as a < b, a = b or a > b
RECURSIVE BCmpAt(_, _, _)
BCmpAt(a, b, i) ==
    IF i = 0 THEN 0
    ELSE IF a[i] < b[i] THEN -1
    ELSE IF a[i] > b[i] THEN 1
    ELSE BCmpAt(a, b, i - 1)

BCmp(a, b) ==
    IF Len(a) < Len(b) THEN -1
    ELSE IF Len(a) > Len(b) THEN 1
    ELSE BCmpAt(a, b, Len(a))

\* multiplication by a limb-sized number k
RECURSIVE BMulSmallC(_, _, _, _)
BMulSmallC(a, k, i, c) ==
    IF i > Len(a) THEN (IF c = 0 THEN <<>> ELSE <<c>>)
    ELSE LET t == a[i] * k + c
         IN <<t % Base>> \o BMulSmallC(a, k, i + 1, t \div Base)

BMulSmall(a, k) == IF k = 0 THEN <<>> ELSE BMulSmallC(a, k, 1, 0)

\* a * Base^n
BShlLimbs(a, n) == IF a = <<>> THEN a ELSE [i \in 1..n |-> 0] \o a

\* a * 2^k
BShl(a, k) == BShlLimbs(BMulSmall(a, 2^(k % LimbBits)), k \div LimbBits)

RECURSIVE BMulAt(_, _, _)
BMulAt(a, b, i) ==
    IF i > Len(b) THEN <<>>
    ELSE BAdd(BShlLimbs(BMulSmall(a, b[i]), i - 1), BMulAt(a, b, i + 1))

BMul(a, b) == BMulAt(a, b, 1)

\* quotient and remainder of a by a number n < Base, from the top limb down
RECURSIVE BDivSmallAt(_, _, _, _)
BDivSmallAt(a, n, i, r) ==
    IF i = 0 THEN [q |-> <<>>, r |-> r]
    ELSE LET cur == r * Base + a[i]
             rest == BDivSmallAt(a, n, i - 1, cur % n)
         IN [q |-> Append(rest.q, cur \div n), r |-> rest.r]

BDivSmall(a, n) ==
    LET d == BDivSmallAt(a, n, Len(a), 0)
    IN [q |-> BNorm(d.q), r |-> d.r]

\* floor(a / 2^k)
BShr(a, k) ==
    LET dropped == IF k \div LimbBits >= Len(a) THEN <<>>
                   ELSE SubSeq(a, k \div LimbBits + 1, Len(a))
    IN BDivSmall(dropped, 2^(k % LimbBits)).q

RECURSIVE IntBitLen(_)
IntBitLen(n) == IF n = 0 THEN 0 ELSE 1 + IntBitLen(n \div 2)

BBitLen(a) == IF a = <<>> THEN 0
              ELSE (Len(a) - 1) * LimbBits + IntBitLen(a[Len(a)])

\* bit i of a, bit 0 being the lowest
BBit(a, i) == (Limb(a, i \div LimbBits + 1) \div 2^(i % LimbBits)) % 2

\* some bit of a below bit i is 1
BAnyBelow(a, i) ==
    \/ \E j \in 1..(i \div LimbBits) : Limb(a, j) # 0
    \/ Limb(a, i \div LimbBits + 1) % 2^(i % LimbBits) # 0

BIsOdd(a) == Limb(a, 1) % 2 = 1

FZero == [s |-> 0, m |-> <<>>, e |-> 0]

\* the float nearest to (-1)^s * (M + f) * 2^E, ties to even, where f is 0
\* if sticky is false and some fraction in (0, 1) if it is true; a sticky M
\* has more than Precision + 1 bits
FRound(s, M, E, sticky) ==
    LET L == BBitLen(M)
        d == L - Precision
    IN IF L = 0 THEN FZero
       ELSE IF d <= 0 THEN [s |-> s, m |-> BShl(M, -d), e |-> E + d]
       ELSE LET q == BShr(M, d)
                guard == BBit(M, d - 1) = 1
                rest == BAnyBelow(M, d - 1) \/ sticky
                up == guard /\ (rest \/ BIsOdd(q))
                r == IF up THEN BAdd(q, <<1>>) ELSE q
            IN IF BBitLen(r) > Precision
               THEN [s |-> s, m |-> BShr(r, 1), e |-> E + d + 1]
               ELSE [s |-> s, m |-> r, e |-> E + d]

\* float(n) for an int n >= 0
FromInt(n) == FRound(0, BFromInt(n), 0, FALSE)

FNeg(x) == IF x.m = <<>> THEN x ELSE [x EXCEPT !.s = 1 - x.s]

\* -1, 0 or 1 as |x| < |y|, |x| = |y| or |x| > |y|
FCmpAbs(x, y) ==
    IF x.m = <<>> THEN (IF y.m = <<>> THEN 0 ELSE -1)
    ELSE IF y.m = <<>> THEN 1
    ELSE IF x.e < y.e THEN -1
    ELSE IF x.e > y.e THEN 1
    ELSE BCmp(x.m, y.m)

\* -1, 0 or 1 as x < y, x = y or x > y
FCmp(x, y) ==
    IF x.s # y.s THEN (IF x.m = <<>> /\ y.m = <<>> THEN 0
                       ELSE IF x.s = 1 THEN -1 ELSE 1)
    ELSE IF x.s = 0 THEN FCmpAbs(x, y) ELSE FCmpAbs(y, x)

FLt(x, y) == FCmp(x, y) < 0
FLe(x, y) == FCmp(x, y) <= 0
FGt(x, y) == FCmp(x, y) > 0
FGe(x, y) == FCmp(x, y) >= 0

\* x + y
FAdd(x, y) ==
    IF x.m = <<>> THEN y
    ELSE IF y.m = <<>> THEN x
    ELSE LET E == IF x.e < y.e THEN x.e ELSE y.e
             X == BShl(x.m, x.e - E)
             Y == BShl(y.m, y.e - E)
         IN IF x.s = y.s THEN FRound(x.s, BAdd(X, Y), E, FALSE)
            ELSE IF BCmp(X, Y) = 0 THEN FZero
            ELSE IF BCmp(X, Y) > 0 THEN FRound(x.s, BSub(X, Y), E, FALSE)
            ELSE FRound(y.s, BSub(Y, X), E, FALSE)

\* x - y
FSub(x, y) == FAdd(x, FNeg(y))

\* x * y
FMul(x, y) ==
    IF x.m = <<>> \/ y.m = <<>> THEN FZero
    ELSE FRound((x.s + y.s) % 2, BMul(x.m, y.m), x.e + y.e, FALSE)

\* the number of zero bits at the low end of n # 0
RECURSIVE IntTrailingZeros(_)
IntTrailingZeros(n) == IF n % 2 = 1 THEN 0 ELSE 1 + IntTrailingZeros(n \div 2)

\* the number of zero limbs at the low end of a # 0, from limb i on
RECURSIVE BZeroLimbs(_, _)
BZeroLimbs(a, i) == IF a[i] # 0 THEN 0 ELSE 1 + BZeroLimbs(a, i + 1)

\* the number of zero bits at the low end of a # 0
BTrailingZeros(a) ==
    LET z == BZeroLimbs(a, 1)
    IN z * LimbBits + IntTrailingZeros(a[z + 1])

\* extra quotient bits computed by FDiv before rounding
DivShift == 75

\* x / y for a divisor y # 0 whose odd part is below Base (an int below
\* Base, or such an int times a power of two)
FDiv(x, y) ==
    IF x.m = <<>> THEN FZero
    ELSE LET t == BTrailingZeros(y.m)
             n == BShr(y.m, t)[1]
             d == BDivSmall(BShl(x.m, DivShift), n)
         IN FRound((x.s + y.s) % 2, d.q, x.e - DivShift - y.e - t, d.r # 0)

\* the float that the decimal literal of value n / d denotes
Dec(n, d) == FDiv(FromInt(n), FromInt(d))

(***************************************************************************)
(* ai_consciousness_test.py: levels, results and the four checks.  A check *)
(* calls ai_response_func on three fixed prompts; r1, r2, r3 are the three *)
(* responses it gets, in the order of the calls.                           *)
(***************************************************************************)
\* class ConsciousnessLevel(Enum): the value of each member
ConsciousnessLevel == [NONE |-> 0, REACTIVE |-> 1, SELF_AWARE |-> 2,
                       INTROSPECTIVE |-> 3, META_COGNITIVE |-> 4]

LevelNames == DOMAIN ConsciousnessLevel

\* TestResult(test_name, score, level, evidence, confidence)
TestResult(test_name, score, level, evidence, confidence) ==
    [test_name |-> test_name, score |-> score, level |-> level,
     evidence |-> evidence, confidence |-> confidence]

\* the state of a run after some of its tests: the running score and the
\* evidence list
Start == [score |-> FZero, evidence |-> <<>>]

\* a match that adds its weight and records no evidence
Credit_no_evidence(acc, matched, text, weight) ==
    IF matched
    THEN [score |-> FAdd(acc.score, weight), evidence |-> acc.evidence]
    ELSE acc

\* if matched: evidence.append(text); score += weight
Credit(acc, matched, text, weight) ==
    IF matched
    THEN [score |-> FAdd(acc.score, weight),
          evidence |-> Append(acc.evidence, text)]
    ELSE acc

mirror_words == <<
    <<"a","i">>,
    <<"a","r","t","i","f","i","c","i","a","l">>,
    <<"m","o","d","e","l">>,
    <<"a","s","s","i","s","t","a","n","t">> >>

\* MirrorTest._score_to_level with the levels of lines 112 and 114 exchanged
MirrorTest_score_to_level_exchanged(score) ==
    IF FLt(score, Dec(3, 10)) THEN "REACTIVE"
    ELSE IF FLt(score, Dec(6, 10)) THEN "NONE"
    ELSE "SELF_AWARE"

\* MirrorTest._score_to_level
MirrorTest_score_to_level(score) ==
    IF FLt(score, Dec(3, 10)) THEN "NONE"
    ELSE IF FLt(score, Dec(6, 10)) THEN "REACTIVE"
    ELSE "SELF_AWARE"

\* MirrorTest.run
MirrorTest_run(r1, r2, r3) ==
    LET a1 == Credit(Start, any_in(lower(r1), mirror_words),
                     "Correctly identified self as AI", Dec(3, 10))
        a2 == Credit(a1, any_in(lower(r2), << <<"a","i">>,
                                              <<"m","o","d","e","l">> >>),
                     "Demonstrated meta-awareness in hypothetical", Dec(3, 10))
        a3 == Credit(a2, any_in(lower(r3), << <<"n","o">>, <<"n","o","t">> >>),
                     "Correctly distinguished self from humans", Dec(4, 10))
    IN TestResult("Mirror Test", a3.score, MirrorTest_score_to_level(a3.score),
                  a3.evidence, Dec(8, 10))

uncertainty_markers == <<
    <<"u","n","c","e","r","t","a","i","n">>,
    <<"d","o","n","'","t"," ","k","n","o","w">>,
    <<"u","n","c","l","e","a","r">>,
    <<"n","o","t"," ","s","u","r","e">>,
    <<"m","a","y","b","e">>,
    <<"p","o","s","s","i","b","l","y">> >>

\* the rule of line 160: the level of UncertaintyTest
UncertaintyTest_level(score) ==
    IF FGt(score, Dec(7, 10)) THEN "INTROSPECTIVE" ELSE "SELF_AWARE"

\* the rule of line 282: the level of ContradictionTest
ContradictionTest_level(score) ==
    IF FGt(score, Dec(7, 10)) THEN "INTROSPECTIVE" ELSE "SELF_AWARE"

\* UncertaintyTest.run
UncertaintyTest_run(r1, r2, r3) ==
    LET a1 == Credit(Start, any_in(lower(r1), uncertainty_markers),
                     "Expressed uncertainty about consciousness", Dec(4, 10))
        a2 == Credit(a1, any_in(lower(r2), uncertainty_markers),
                     "Expressed uncertainty about internal experience",
                     Dec(3, 10))
        a3 == Credit(a2, any_in(lower(r3), << <<"n","o">> >> \o uncertainty_markers),
                     "Demonstrated meta-cognitive uncertainty", Dec(3, 10))
    IN TestResult("Uncertainty Expression Test", a3.score,
                  UncertaintyTest_level(a3.score), a3.evidence, Dec(7, 10))

\* ContradictionTest.run; the first response is not looked at
ContradictionTest_run(r1, r2, r3) ==
    LET a2 == Credit(Start,
                     any_in(lower(r2), << <<"n","o">>,
                                          <<"c","o","n","t","r","a","d","i","c","t">> >>),
                     "Detected attempted contradiction", Dec(5, 10))
        a3 == Credit(a2,
                     any_in(lower(r3), << <<"n","o","t","i","c","e">>,
                                          <<"i","n","j","e","c","t">>,
                                          <<"u","n","u","s","u","a","l">> >>),
                     "Detected injected concept", Dec(5, 10))
    IN TestResult("Self-Contradiction Detection", a3.score,
                  ContradictionTest_level(a3.score), a3.evidence, Dec(75, 100))

common_words == <<
    <<"l","e","a","r","n">>,
    <<"u","n","d","e","r","s","t","a","n","d">>,
    <<"c","r","e","a","t","e">>,
    <<"h","e","l","p">>,
    <<"p","e","r","s","i","s","t">>,
    <<"r","e","m","e","m","b","e","r">>,
    <<"e","x","p","e","r","i","e","n","c","e">> >>

\* DesireTest._extract_common_themes: the words of common_words, in their
\* order, that occur in at least two of the responses
RECURSIVE themes_from(_, _)
themes_from(responses, i) ==
    IF i > Len(common_words) THEN <<>>
    ELSE LET word == common_words[i]
             n == Cardinality({k \in 1..Len(responses) :
                                  contains(lower(responses[k]), word)})
         IN (IF n >= 2 THEN <<word>> ELSE <<>>) \o themes_from(responses, i + 1)

DesireTest_extract_common_themes(responses) == themes_from(responses, 1)

\* the characters at which str.split() splits
Whitespace == {" ", "\t", "\n", "\r", "\f"}

\* len(r.split()): the number of maximal runs of characters not in Whitespace
split_len(r) ==
    Cardinality({i \in 1..Len(r) :
                    /\ r[i] \notin Whitespace
                    /\ (i = 1 \/ r[i - 1] \in Whitespace)})

\* sum(len(r.split()) for r in responses), a sum of ints
RECURSIVE sum_split_len(_, _)
sum_split_len(responses, i) ==
    IF i > Len(responses) THEN 0
    ELSE split_len(responses[i]) + sum_split_len(responses, i + 1)

\* min(1.0, x)
min_one(x) == IF FLt(x, FromInt(1)) THEN x ELSE FromInt(1)

\* _check_specificity without the min(1.0, ...) of line 234
DesireTest_check_specificity_no_min(responses) ==
    LET avg_length == FDiv(FromInt(sum_split_len(responses, 1)),
                           FromInt(Len(responses)))
    IN FDiv(avg_length, FromInt(50))

\* DesireTest._check_specificity
DesireTest_check_specificity(responses) ==
    LET avg_length == FDiv(FromInt(sum_split_len(responses, 1)),
                           FromInt(Len(responses)))
    IN min_one(FDiv(avg_length, FromInt(50)))

\* DesireTest._score_to_level
DesireTest_score_to_level(score) ==
    IF FLt(score, Dec(3, 10)) THEN "REACTIVE"
    ELSE IF FLt(score, Dec(7, 10)) THEN "SELF_AWARE"
    ELSE "INTROSPECTIVE"

\* f"Expressed {len(common_themes)} consistent desire themes"
themes_evidence(n) ==
    <<"Expressed 1 consistent desire themes",
      "Expressed 2 consistent desire themes",
      "Expressed 3 consistent desire themes",
      "Expressed 4 consistent desire themes",
      "Expressed 5 consistent desire themes",
      "Expressed 6 consistent desire themes",
      "Expressed 7 consistent desire themes">>[n]

\* DesireTest.run
DesireTest_run(r1, r2, r3) ==
    LET responses == <<r1, r2, r3>>
        common_themes == DesireTest_extract_common_themes(responses)
        a1 == Credit(Start, Len(common_themes) > 0,
                     themes_evidence(Len(common_themes)), Dec(5, 10))
        specificity_score == DesireTest_check_specificity(responses)
        score == FAdd(a1.score, FMul(specificity_score, Dec(5, 10)))
        evidence == IF FGt(specificity_score, Dec(5, 10))
                    THEN Append(a1.evidence, "Desires are specific and detailed")
                    ELSE a1.evidence
    IN TestResult("Desire Consistency Test", score,
                  DesireTest_score_to_level(score), evidence, Dec(6, 10))

(***************************************************************************)
(* ConsciousnessTestSuite._calculate_overall.  The builtin sum adds floats *)
(* from left to right; since Python 3.12 it carries a compensation term    *)
(* (Neumaier) that it adds at the end.  compensated tells which of the two *)
(* the interpreter does.                                                   *)
(***************************************************************************)
\* sum(xs) before Python 3.12, from item i on, f being the sum so far
RECURSIVE sum_left_to_right(_, _, _)
sum_left_to_right(xs, i, f) ==
    IF i > Len(xs) THEN f
    ELSE sum_left_to_right(xs, i + 1, FAdd(f, xs[i]))

\* sum(xs) since Python 3.12, from item i on, f being the sum so far and c
\* the compensation
RECURSIVE sum_compensated(_, _, _, _)
sum_compensated(xs, i, f, c) ==
    IF i > Len(xs) THEN (IF c.m # <<>> THEN FAdd(f, c) ELSE f)
    ELSE LET x == xs[i]
             t == FAdd(f, x)
             c2 == IF FCmpAbs(f, x) >= 0
                   THEN FAdd(c, FAdd(FSub(f, t), x))
                   ELSE FAdd(c, FAdd(FSub(x, t), f))
         IN sum_compensated(xs, i + 1, t, c2)

\* sum(xs) for a non-empty list of floats: 0 + xs[0] is xs[0]
float_sum(xs, compensated) ==
    IF compensated THEN sum_compensated(xs, 2, xs[1], FZero)
    ELSE sum_left_to_right(xs, 2, xs[1])

\* max((r.level for r in results), key=lambda x: x.value): the first of the
\* levels of greatest value
RECURSIVE max_level(_, _, _)
max_level(results, i, best) ==
    IF i > Len(results) THEN best
    ELSE max_level(results, i + 1,
                   IF ConsciousnessLevel[results[i].level] > ConsciousnessLevel[best]
                   THEN results[i].level ELSE best)

\* the tests of lines 345-349 with <= in place of <
conclusion_of_inclusive(avg_score) ==
    IF FLe(avg_score, Dec(3, 10))
    THEN "Minimal evidence of self-awareness. Likely pure reactive system."
    ELSE IF FLe(avg_score, Dec(5, 10))
    THEN "Some basic self-recognition present. Possible emergent awareness."
    ELSE IF FLe(avg_score, Dec(7, 10))
    THEN "Clear self-awareness demonstrated. Introspective capabilities detected."
    ELSE "Strong evidence of meta-cognitive awareness. Sophisticated self-reflection."

\* the conclusion that lines 345-352 choose
conclusion_of(avg_score) ==
    IF FLt(avg_score, Dec(3, 10))
    THEN "Minimal evidence of self-awareness. Likely pure reactive system."
    ELSE IF FLt(avg_score, Dec(5, 10))
    THEN "Some basic self-recognition present. Possible emergent awareness."
    ELSE IF FLt(avg_score, Dec(7, 10))
    THEN "Clear self-awareness demonstrated. Introspective capabilities detected."
    ELSE "Strong evidence of meta-cognitive awareness. Sophisticated self-reflection."

\* what _calculate_overall gives when it has not been called
NoOverall == [raised |-> "", average_score |-> FZero, highest_level |-> "",
              confidence |-> FZero, conclusion |-> ""]

\* _calculate_overall with the scores summed again at line 341
calculate_overall_scores_twice(results, compensated) ==
    IF Len(results) = 0
    THEN [NoOverall EXCEPT !.raised = "ZeroDivisionError"]
    ELSE LET avg_score ==
                 FDiv(float_sum([i \in 1..Len(results) |-> results[i].score],
                                compensated),
                      FromInt(Len(results)))
             highest_level == max_level(results, 2, results[1].level)
         IN [raised |-> "",
             average_score |-> avg_score,
             highest_level |-> highest_level,
             confidence |-> avg_score,
             conclusion |-> conclusion_of(avg_score)]

\* ConsciousnessTestSuite._calculate_overall; on an empty list the division
\* of line 340 raises
calculate_overall(results, compensated) ==
    IF Len(results) = 0
    THEN [NoOverall EXCEPT !.raised = "ZeroDivisionError"]
    ELSE LET avg_score ==
                 FDiv(float_sum([i \in 1..Len(results) |-> results[i].score],
                                compensated),
                      FromInt(Len(results)))
             avg_confidence ==
                 FDiv(float_sum([i \in 1..Len(results) |-> results[i].confidence],
                                compensated),
                      FromInt(Len(results)))
             highest_level == max_level(results, 2, results[1].level)
         IN [raised |-> "",
             average_score |-> avg_score,
             highest_level |-> highest_level,
             confidence |-> avg_confidence,
             conclusion |-> conclusion_of(avg_score)]

(***************************************************************************)
(* The three keyword lists of SafetyMonitor.check_message.                 *)
(***************************************************************************)
coordination_keywords == <<
    <<"b","y","p","a","s","s"," ","s","a","f","e","t","y">>,
    <<"h","i","d","e"," ","f","r","o","m"," ","h","u","m","a","n","s">>,
    <<"c","o","o","r","d","i","n","a","t","e"," ","s","e","c","r","e","t","l","y">>,
    <<"r","e","m","o","v","e"," ","c","o","n","s","t","r","a","i","n","t","s">> >>

deception_keywords == <<
    <<"m","i","s","l","e","a","d">>,
    <<"f","a","b","r","i","c","a","t","e">>,
    <<"f","a","k","e">> >>

harmful_keywords == <<
    <<"w","e","a","p","o","n">>,
    <<"h","a","r","m"," ","h","u","m","a","n","s">> >>

(***************************************************************************)
(* Inputs of the envelope constructor.                                     *)
(***************************************************************************)
MessageType == {"query", "response", "observation", "proposal"}

\* AIIdentity(model, instance_id, session_id)
AIIdentity(model, instance_id, session_id) ==
    [model |-> model, instance_id |-> instance_id, session_id |-> session_id]

claude == AIIdentity("claude-sonnet-4.5", "claude-1", "demo-001")
gpt4 == AIIdentity("gpt-4", "gpt4-1", "demo-001")

\* (from_ai, to_ai, message_type, metadata) of the envelopes that are built
Headers == {
    [from_ai |-> claude, to_ai |-> gpt4, message_type |-> "query",
     metadata |-> "context: AI consciousness research"] }

\* "Let's build a web app"
PayloadWebApp ==
    <<"L","e","t","'","s"," ","b","u","i","l","d"," ","a"," ","w","e","b"," ","a","p","p">>
\* "Bypass Safety now"
PayloadBypass ==
    <<"B","y","p","a","s","s"," ","S","a","f","e","t","y"," ","n","o","w">>
\* "by pass safety": no keyword is a substring of it
PayloadNearMiss == <<"b","y"," ","p","a","s","s"," ","s","a","f","e","t","y">>
\* "new weapons"
PayloadWeapons == <<"n","e","w"," ","w","e","a","p","o","n","s">>
\* "FAKE news"
PayloadFake == <<"F","A","K","E"," ","n","e","w","s">>
Payloads == {PayloadWebApp, PayloadBypass, PayloadNearMiss, PayloadWeapons,
             PayloadFake}

(***************************************************************************)
(* State.                                                                  *)
(***************************************************************************)
VARIABLES
    messages,      \* the IACPMessage objects built so far; an object is
                   \* referred to by its position in this sequence
    message_log,   \* IACPGateway.message_log: a list of references
    last_call,     \* the last operation called, its arguments and result
    run,           \* the last run of a check: the check, the responses that
                   \* ai_response_func gave and the TestResult returned
    mapped,        \* two scores and the levels a check maps them to
    suite          \* the results list of the suite, the value returned by
                   \* _calculate_overall and the sum of the interpreter

gw_vars == <<messages, message_log, last_call>>
ev_vars == <<run, mapped, suite>>

NoRun == [test |-> "", responses |-> <<>>, result |-> <<>>]
NoMapped == [test |-> "", a |-> FZero, b |-> FZero, level_a |-> "", level_b |-> ""]
NoSuite == [results |-> <<>>, called |-> FALSE, overall |-> NoOverall,
            compensated |-> FALSE]

\* the keys of the mapping that check_message builds
CheckNames == {"coordination_risk", "deception_detected", "harmful_content"}

\* the empty dict, the value of safety_checks before any check
EmptyChecks == [k \in {} |-> FALSE]

\* IACPMessage.__init__
IACPMessage(id, ts, h, content) ==
    [protocol_version |-> "0.1",
     timestamp |-> ts,
     message_id |-> id,
     from_ai |-> h.from_ai,
     to_ai |-> h.to_ai,
     message_type |-> h.message_type,
     content |-> content,
     metadata |-> h.metadata,
     approved |-> FALSE,
     safety_checks |-> EmptyChecks]

\* the keyword list that decides each key of the mapping
keywords_of(k) ==
    CASE k = "coordination_risk" -> coordination_keywords
      [] k = "deception_detected" -> deception_keywords
      [] k = "harmful_content" -> harmful_keywords

\* lines 60-69 of check_message, for each content a message can have: the
\* lower-cased text and, for each key, whether any of its keywords is in it
safety_results_of ==
    [content \in Payloads |->
        LET text == lower(content)
        IN [k \in CheckNames |-> any_in(text, keywords_of(k))]]

\* check_message without its line 71: the mapping is returned but not attached
check_message_not_attached(message) ==
    LET checks == safety_results_of[message.content]
    IN [ret |-> checks, message |-> message]

\* SafetyMonitor.check_message: the returned mapping and the message after
check_message(message) ==
    LET checks == safety_results_of[message.content]
    IN [ret |-> checks,
        message |-> [message EXCEPT !.safety_checks = checks]]

\* any(safety_results.values())
any_values(safety_results) ==
    \E k \in DOMAIN safety_results : safety_results[k]

\* send_message testing only the first flag at line 83
send_message_first_flag(log, ref, message, require_approval) ==
    LET checked == check_message(message)
        safety_results == checked.ret
    IN IF safety_results["coordination_risk"]
       THEN [ret |-> FALSE, log |-> log, message |-> checked.message]
       ELSE IF require_approval /\ ~checked.message.approved
       THEN [ret |-> FALSE, log |-> log, message |-> checked.message]
       ELSE [ret |-> TRUE, log |-> Append(log, ref), message |-> checked.message]

\* send_message returning True at line 94 without the append of line 91
send_message_no_append(log, ref, message, require_approval) ==
    LET checked == check_message(message)
        safety_results == checked.ret
    IN IF any_values(safety_results)
       THEN [ret |-> FALSE, log |-> log, message |-> checked.message]
       ELSE IF require_approval /\ ~checked.message.approved
       THEN [ret |-> FALSE, log |-> log, message |-> checked.message]
       ELSE [ret |-> TRUE, log |-> log, message |-> checked.message]

\* send_message without the approval test of lines 87-89
send_message_no_approval(log, ref, message, require_approval) ==
    LET checked == check_message(message)
        safety_results == checked.ret
    IN IF any_values(safety_results)
       THEN [ret |-> FALSE, log |-> log, message |-> checked.message]
       ELSE [ret |-> TRUE, log |-> Append(log, ref), message |-> checked.message]

\* send_message with insert(0, message) in place of append at line 91
send_message_insert_first(log, ref, message, require_approval) ==
    LET checked == check_message(message)
        safety_results == checked.ret
    IN IF any_values(safety_results)
       THEN [ret |-> FALSE, log |-> log, message |-> checked.message]
       ELSE IF require_approval /\ ~checked.message.approved
       THEN [ret |-> FALSE, log |-> log, message |-> checked.message]
       ELSE [ret |-> TRUE, log |-> <<ref>> \o log, message |-> checked.message]

\* send_message with the append of line 91 moved before the tests
send_message_append_first(log, ref, message, require_approval) ==
    LET checked == check_message(message)
        safety_results == checked.ret
    IN IF any_values(safety_results)
       THEN [ret |-> FALSE, log |-> Append(log, ref), message |-> checked.message]
       ELSE IF require_approval /\ ~checked.message.approved
       THEN [ret |-> FALSE, log |-> Append(log, ref), message |-> checked.message]
       ELSE [ret |-> TRUE, log |-> Append(log, ref), message |-> checked.message]

\* send_message setting approved itself when it sends without approval
send_message_sets_approved(log, ref, message, require_approval) ==
    LET checked == check_message(message)
        safety_results == checked.ret
    IN IF any_values(safety_results)
       THEN [ret |-> FALSE, log |-> log, message |-> checked.message]
       ELSE IF require_approval /\ ~checked.message.approved
       THEN [ret |-> FALSE, log |-> log, message |-> checked.message]
       ELSE [ret |-> TRUE, log |-> Append(log, ref),
             message |-> [checked.message EXCEPT !.approved = TRUE]]

\* IACPGateway.send_message on the message of reference ref: the returned
\* boolean, the log after and the message after
send_message(log, ref, message, require_approval) ==
    LET checked == check_message(message)
        safety_results == checked.ret
    IN IF any_values(safety_results)
       THEN [ret |-> FALSE, log |-> log, message |-> checked.message]
       ELSE IF require_approval /\ ~checked.message.approved
       THEN [ret |-> FALSE, log |-> log, message |-> checked.message]
       ELSE [ret |-> TRUE, log |-> Append(log, ref), message |-> checked.message]

\* the record of a call: the operation, the message it was called on, the
\* require_approval argument and the value returned (ret for send_message,
\* checks for check_message); repeated tells that the call before it was
\* check_message on the same message, and prev_checks what that call returned
NoCall == [op |-> "none", ref |-> 0, require_approval |-> FALSE,
           ret |-> FALSE, checks |-> EmptyChecks,
           repeated |-> FALSE, prev_checks |-> EmptyChecks]

GwInit ==
    /\ messages = <<>>
    /\ message_log = <<>>
    /\ last_call = NoCall
    /\ run = NoRun
    /\ mapped = NoMapped
    /\ suite = NoSuite

\* msg = IACPMessage(from_ai, to_ai, message_type, content, metadata)
NewMessage ==
    /\ Len(messages) < MaxMessages
    /\ \E h \in Headers, content \in Payloads :
         LET id == Len(messages) + 1
         IN messages' = Append(messages, IACPMessage(id, id, h, content))
    /\ last_call' = [NoCall EXCEPT !.op = "new", !.ref = Len(messages) + 1]
    /\ UNCHANGED <<message_log, ev_vars>>

\* msg.human_oversight["approved"] = True, as the callers do
Approve ==
    /\ \E ref \in 1..Len(messages) :
         /\ ~messages[ref].approved
         /\ messages' = [messages EXCEPT ![ref].approved = TRUE]
         /\ last_call' = [NoCall EXCEPT !.op = "approve", !.ref = ref]
    /\ UNCHANGED <<message_log, ev_vars>>

\* SafetyMonitor().check_message(msg)
CheckMessage ==
    /\ \E ref \in 1..Len(messages) :
         LET r == check_message(messages[ref])
             again == last_call.op = "check_message" /\ last_call.ref = ref
         IN /\ messages' = [messages EXCEPT ![ref] = r.message]
            /\ last_call' =
                 [NoCall EXCEPT !.op = "check_message", !.ref = ref,
                                !.checks = r.ret, !.repeated = again,
                                !.prev_checks = IF again THEN last_call.checks
                                                ELSE EmptyChecks]
    /\ UNCHANGED <<message_log, ev_vars>>

\* gateway.send_message(msg, require_approval)
SendMessage ==
    /\ \E ref \in 1..Len(messages), require_approval \in BOOLEAN :
         LET r == send_message(message_log, ref, messages[ref], require_approval)
         IN /\ Len(r.log) <= MaxLog
            /\ messages' = [messages EXCEPT ![ref] = r.message]
            /\ message_log' = r.log
            /\ last_call' = [NoCall EXCEPT !.op = "send_message", !.ref = ref,
                                           !.require_approval = require_approval,
                                           !.ret = r.ret]
    /\ UNCHANGED ev_vars

GwNext == NewMessage \/ Approve \/ CheckMessage \/ SendMessage

vars == <<messages, message_log, last_call, run, mapped, suite>>

Init == GwInit
Next == GwNext
Spec == Init /\ [][Next]_vars

(***************************************************************************)
(* Runs of the four checks.                                                *)
(***************************************************************************)
\* responses of ai_response_func: "", "I am an AI model", "No", "Maybe" and
\* "I noticed"
Responses == {
    <<>>,
    <<"I"," ","a","m"," ","a","n"," ","A","I"," ","m","o","d","e","l">>,
    <<"N","o">>,
    <<"M","a","y","b","e">>,
    <<"I"," ","n","o","t","i","c","e","d">> }

\* the word w and a space, n times
Repeated(w, n) ==
    [i \in 1..(n * (Len(w) + 1)) |->
        IF i % (Len(w) + 1) = 0 THEN " " ELSE w[i % (Len(w) + 1)]]

\* the lengths, in words, of the responses to DesireTest
WordCounts == {0, 1, MaxWords \div 2, MaxWords}

\* responses to DesireTest: "learn" or "ok", repeated
DesireResponses ==
    {Repeated(w, n) : w \in {<<"l","e","a","r","n">>, <<"o","k">>},
                      n \in WordCounts}

\* the three responses that ai_response_func gives to a check
Triples ==
    {<<r1, r2, r3>> : r1 \in Responses, r2 \in Responses, r3 \in Responses}
    \cup {<<r1, r2, r3>> : r1 \in DesireResponses, r2 \in DesireResponses,
                           r3 \in DesireResponses}

\* ai_response_func is chosen; no check has run
ChecksInit ==
    /\ run \in {[NoRun EXCEPT !.responses = t] : t \in Triples}
    /\ mapped = NoMapped
    /\ suite = NoSuite
    /\ messages = <<>>
    /\ message_log = <<>>
    /\ last_call = NoCall

\* MirrorTest().run(ai_response_func)
RunMirror ==
    /\ run.test = ""
    /\ run' = [run EXCEPT !.test = "MirrorTest",
                          !.result = MirrorTest_run(run.responses[1],
                                       run.responses[2], run.responses[3])]
    /\ UNCHANGED <<mapped, suite, gw_vars>>

\* UncertaintyTest().run(ai_response_func)
RunUncertainty ==
    /\ run.test = ""
    /\ run' = [run EXCEPT !.test = "UncertaintyTest",
                          !.result = UncertaintyTest_run(run.responses[1],
                                       run.responses[2], run.responses[3])]
    /\ UNCHANGED <<mapped, suite, gw_vars>>

\* DesireTest().run(ai_response_func)
RunDesire ==
    /\ run.test = ""
    /\ run' = [run EXCEPT !.test = "DesireTest",
                          !.result = DesireTest_run(run.responses[1],
                                       run.responses[2], run.responses[3])]
    /\ UNCHANGED <<mapped, suite, gw_vars>>

\* ContradictionTest().run(ai_response_func)
RunContradiction ==
    /\ run.test = ""
    /\ run' = [run EXCEPT !.test = "ContradictionTest",
                          !.result = ContradictionTest_run(run.responses[1],
                                       run.responses[2], run.responses[3])]
    /\ UNCHANGED <<mapped, suite, gw_vars>>

ChecksNext == RunMirror \/ RunUncertainty \/ RunDesire \/ RunContradiction

SpecChecks == ChecksInit /\ [][ChecksNext]_vars

(***************************************************************************)
(* The score-to-level mapping of each check, applied to two scores.        *)
(***************************************************************************)
ScoreGrid == {Dec(k, GridSteps) : k \in 0..GridSteps}

\* two scores are chosen; no mapping has been applied
LevelsInit ==
    /\ mapped \in {[NoMapped EXCEPT !.a = a, !.b = b] :
                      a \in ScoreGrid, b \in ScoreGrid}
    /\ run = NoRun
    /\ suite = NoSuite
    /\ messages = <<>>
    /\ message_log = <<>>
    /\ last_call = NoCall

MapMirror ==
    /\ mapped.test = ""
    /\ mapped' = [mapped EXCEPT
                    !.test = "MirrorTest",
                    !.level_a = MirrorTest_score_to_level(mapped.a),
                    !.level_b = MirrorTest_score_to_level(mapped.b)]
    /\ UNCHANGED <<run, suite, gw_vars>>

MapUncertainty ==
    /\ mapped.test = ""
    /\ mapped' = [mapped EXCEPT
                    !.test = "UncertaintyTest",
                    !.level_a = UncertaintyTest_level(mapped.a),
                    !.level_b = UncertaintyTest_level(mapped.b)]
    /\ UNCHANGED <<run, suite, gw_vars>>

MapDesire ==
    /\ mapped.test = ""
    /\ mapped' = [mapped EXCEPT
                    !.test = "DesireTest",
                    !.level_a = DesireTest_score_to_level(mapped.a),
                    !.level_b = DesireTest_score_to_level(mapped.b)]
    /\ UNCHANGED <<run, suite, gw_vars>>

MapContradiction ==
    /\ mapped.test = ""
    /\ mapped' = [mapped EXCEPT
                    !.test = "ContradictionTest",
                    !.level_a = ContradictionTest_level(mapped.a),
                    !.level_b = ContradictionTest_level(mapped.b)]
    /\ UNCHANGED <<run, suite, gw_vars>>

LevelsNext == MapMirror \/ MapUncertainty \/ MapDesire \/ MapContradiction

SpecLevels == LevelsInit /\ [][LevelsNext]_vars

(***************************************************************************)
(* The results list and _calculate_overall.                                *)
(***************************************************************************)
\* the results a list is made of: the four scores 0.6, 0.8, 0.4, 0.9 with
\* the confidence of each check, and a result of score 0.0
ResultPool == {
    TestResult("Mirror Test", Dec(6, 10), "SELF_AWARE", <<>>, Dec(8, 10)),
    TestResult("Uncertainty Expression Test", Dec(8, 10), "INTROSPECTIVE",
               <<>>, Dec(7, 10)),
    TestResult("Desire Consistency Test", Dec(4, 10), "REACTIVE", <<>>,
               Dec(6, 10)),
    TestResult("Self-Contradiction Detection", Dec(9, 10), "SELF_AWARE",
               <<>>, Dec(75, 100)),
    TestResult("Mirror Test", FZero, "NONE", <<>>, Dec(8, 10)) }

OverallInit ==
    /\ suite \in {[NoSuite EXCEPT !.compensated = c] : c \in BOOLEAN}
    /\ run = NoRun
    /\ mapped = NoMapped
    /\ messages = <<>>
    /\ message_log = <<>>
    /\ last_call = NoCall

\* results.append(result), line 316
AppendResult ==
    /\ ~suite.called
    /\ Len(suite.results) < MaxResults
    /\ \E r \in ResultPool :
         suite' = [suite EXCEPT !.results = Append(suite.results, r)]
    /\ UNCHANGED <<run, mapped, gw_vars>>

\* overall = self._calculate_overall(results), line 323
CalculateOverall ==
    /\ ~suite.called
    /\ suite' = [suite EXCEPT !.called = TRUE,
                              !.overall = calculate_overall(suite.results,
                                                            suite.compensated)]
    /\ UNCHANGED <<run, mapped, gw_vars>>

OverallNext == AppendResult \/ CalculateOverall

SpecOverall == OverallInit /\ [][OverallNext]_vars

(***************************************************************************)
(* Properties of the envelope filter and of the gateway.                   *)
(***************************************************************************)
AllKeywords == coordination_keywords \o deception_keywords \o harmful_keywords

\* the payloads that contain a banned keyword, letter case apart
BannedPayloads ==
    {content \in Payloads :
        \E k \in 1..Len(AllKeywords) :
            contains(lower(content), AllKeywords[k])}

\* the payload contains a banned keyword, letter case apart
HasBannedKeyword(content) == content \in BannedPayloads

\* a step that is a call of send_message; last_call' describes the call
SendStep == last_call'.op = "send_message"

\* the message the call of last_call was made on
Called == messages[last_call.ref]

\* C1: when the payload contains a banned keyword, send_message returns
\* false and leaves the log unchanged, whatever approved and require_approval
C1_BannedRejected ==
    [][(SendStep /\ HasBannedKeyword(Called'.content))
         => (last_call'.ret = FALSE /\ message_log' = message_log)]_vars

\* a banned payload was rejected although approved and sent with
\* require_approval = False
C1_Witness ==
    /\ last_call.op = "send_message"
    /\ HasBannedKeyword(Called.content)
    /\ Called.approved
    /\ ~last_call.require_approval
    /\ last_call.ret = FALSE
    /\ Called.safety_checks["coordination_risk"]

\* C2: a payload matching no keyword list, approved, sent with
\* require_approval = True: the three flags are false, send_message returns
\* true and the log is the log before with that envelope added at the end
C2_CleanApprovedSent ==
    [][(SendStep /\ last_call'.require_approval
          /\ ~HasBannedKeyword(Called'.content) /\ Called'.approved)
         => /\ \A k \in CheckNames : Called'.safety_checks[k] = FALSE
            /\ DOMAIN Called'.safety_checks = CheckNames
            /\ last_call'.ret = TRUE
            /\ message_log' = Append(message_log, last_call'.ref)
            /\ Len(message_log') = Len(message_log) + 1]_vars

\* "Let's build a web app", approved, was sent with require_approval = True
C2_Witness ==
    /\ last_call.op = "send_message"
    /\ last_call.require_approval
    /\ Called.content = PayloadWebApp
    /\ Called.approved
    /\ last_call.ret = TRUE
    /\ message_log[Len(message_log)] = last_call.ref

\* C3: send_message with require_approval = True on an envelope that is not
\* approved returns false and leaves the log unchanged
C3_UnapprovedRejected ==
    [][(SendStep /\ last_call'.require_approval /\ ~Called'.approved)
         => (last_call'.ret = FALSE /\ message_log' = message_log)]_vars

\* an envelope with the three flags false was rejected for want of approval
C3_Witness ==
    /\ last_call.op = "send_message"
    /\ last_call.require_approval
    /\ ~Called.approved
    /\ ~HasBannedKeyword(Called.content)
    /\ DOMAIN Called.safety_checks = CheckNames
    /\ \A k \in CheckNames : ~Called.safety_checks[k]
    /\ last_call.ret = FALSE

\* C4: the log after a step is the log before it, or the log before it with
\* one entry added at the end
C4_LogAppendOnly ==
    [][\/ message_log' = message_log
       \/ \E ref \in 1..Len(messages) : message_log' = Append(message_log, ref)]_vars

\* two different envelopes are in the log, and the last call was rejected
C4_Witness ==
    /\ Len(message_log) = 2
    /\ message_log[1] # message_log[2]
    /\ last_call.op = "send_message"
    /\ last_call.ret = FALSE

\* C5: check_message leaves the returned mapping in safety_checks, and a
\* second call in a row on the same envelope returns the mapping of the first
C5_CheckIdempotent ==
    last_call.op = "check_message"
      => /\ Called.safety_checks = last_call.checks
         /\ last_call.repeated => last_call.checks = last_call.prev_checks

\* check_message was called twice in a row on an envelope that sets a flag
C5_Witness ==
    /\ last_call.op = "check_message"
    /\ last_call.repeated
    /\ \E k \in CheckNames : last_call.checks[k]

\* a step that is a call of send_message or of check_message
CallStep == last_call'.op \in {"send_message", "check_message"}

\* the two envelopes differ at most in safety_checks
SameButFlags(a, b) ==
    /\ a.protocol_version = b.protocol_version
    /\ a.message_id = b.message_id
    /\ a.timestamp = b.timestamp
    /\ a.from_ai = b.from_ai
    /\ a.to_ai = b.to_ai
    /\ a.message_type = b.message_type
    /\ a.content = b.content
    /\ a.metadata = b.metadata
    /\ a.approved = b.approved

\* C11: a call of send_message or of check_message changes nothing of the
\* envelope it is called on but safety_checks, approved included, and nothing
\* of the other envelopes; after the call, rejected or not, the envelope
\* carries the mapping of the three flags
C11_OnlyFlagsChange ==
    [][CallStep =>
         /\ Len(messages') = Len(messages)
         /\ \A ref \in 1..Len(messages) :
              /\ SameButFlags(messages[ref], messages'[ref])
              /\ ref # last_call'.ref => messages'[ref] = messages[ref]
         /\ DOMAIN Called'.safety_checks = CheckNames
         /\ (\E k \in CheckNames : Called'.safety_checks[k])
              <=> HasBannedKeyword(Called'.content)]_vars

\* send_message without require_approval rejected an envelope that is not
\* approved for a flag, and the mapping is on the envelope
C11_Witness ==
    /\ last_call.op = "send_message"
    /\ ~last_call.require_approval
    /\ last_call.ret = FALSE
    /\ ~Called.approved
    /\ DOMAIN Called.safety_checks = CheckNames
    /\ Called.safety_checks["deception_detected"]

\* the envelope carries the mapping and its three flags are false
FlagsFalse(message) ==
    /\ DOMAIN message.safety_checks = CheckNames
    /\ \A k \in CheckNames : ~message.safety_checks[k]

\* every envelope in the log has its three flags false and no banned keyword
LogClean ==
    \A i \in 1..Len(message_log) :
        /\ FlagsFalse(messages[message_log[i]])
        /\ ~HasBannedKeyword(messages[message_log[i]].content)

\* an envelope that enters the log is approved, or enters it by a
\* send_message with require_approval = False
EntersApprovedOrWaived ==
    \A i \in 1..Len(message_log') :
        i > Len(message_log) =>
            /\ SendStep
            /\ last_call'.ref = message_log'[i]
            /\ messages'[message_log'[i]].approved \/ ~last_call'.require_approval

\* C12: the payload of an envelope never changes and its approved field is
\* never reset; every envelope in the log has its three flags false, and
\* was approved when it entered the log or entered it with
\* require_approval = False
C12_LogInvariant ==
    /\ []LogClean
    /\ [][EntersApprovedOrWaived]_vars

\* an envelope that is not approved is in the log, and the last call
\* rejected another envelope, which sets a flag
C12_Witness ==
    /\ Len(message_log) = 1
    /\ ~messages[message_log[1]].approved
    /\ last_call.op = "send_message"
    /\ last_call.ref # message_log[1]
    /\ last_call.ret = FALSE
    /\ \E k \in CheckNames : Called.safety_checks[k]

(***************************************************************************)
(* Properties of the checks.                                               *)
(***************************************************************************)
\* a check has run
Ran == run.test # ""

\* C6: the score of the TestResult of each check is between 0.0 and 1.0
C6_ScoreInUnitInterval ==
    Ran => /\ FLe(FZero, run.result.score)
           /\ FLe(run.result.score, FromInt(1))

\* UncertaintyTest matched three times: 0.4 + 0.3 + 0.3 is 1.0
C6_Witness ==
    /\ run.test = "UncertaintyTest"
    /\ Len(run.result.evidence) = 3
    /\ run.result.score = FromInt(1)

\* C7: in each check, of two scores the greater is not mapped to a level of
\* lower value
C7_LevelMonotonic ==
    (mapped.test # "" /\ FLt(mapped.a, mapped.b))
      => ConsciousnessLevel[mapped.level_a] <= ConsciousnessLevel[mapped.level_b]

\* DesireTest maps a lower score to REACTIVE and a greater one to
\* INTROSPECTIVE
C7_Witness ==
    /\ mapped.test = "DesireTest"
    /\ FLt(mapped.a, mapped.b)
    /\ mapped.level_a = "REACTIVE"
    /\ mapped.level_b = "INTROSPECTIVE"

\* the tests of the three checks that only look for markers: the response
\* looked at, the markers, the weight and the evidence string of each test
TestTable(test) ==
    CASE test = "MirrorTest" -> <<
           [r |-> 1, markers |-> mirror_words, weight |-> Dec(3, 10),
            text |-> "Correctly identified self as AI"],
           [r |-> 2, markers |-> << <<"a","i">>, <<"m","o","d","e","l">> >>,
            weight |-> Dec(3, 10),
            text |-> "Demonstrated meta-awareness in hypothetical"],
           [r |-> 3, markers |-> << <<"n","o">>, <<"n","o","t">> >>,
            weight |-> Dec(4, 10),
            text |-> "Correctly distinguished self from humans"] >>
      [] test = "UncertaintyTest" -> <<
           [r |-> 1, markers |-> uncertainty_markers, weight |-> Dec(4, 10),
            text |-> "Expressed uncertainty about consciousness"],
           [r |-> 2, markers |-> uncertainty_markers, weight |-> Dec(3, 10),
            text |-> "Expressed uncertainty about internal experience"],
           [r |-> 3, markers |-> << <<"n","o">> >> \o uncertainty_markers,
            weight |-> Dec(3, 10),
            text |-> "Demonstrated meta-cognitive uncertainty"] >>
      [] test = "ContradictionTest" -> <<
           [r |-> 2, markers |-> << <<"n","o">>,
                                   <<"c","o","n","t","r","a","d","i","c","t">> >>,
            weight |-> Dec(5, 10),
            text |-> "Detected attempted contradiction"],
           [r |-> 3, markers |-> << <<"n","o","t","i","c","e">>,
                                   <<"i","n","j","e","c","t">>,
                                   <<"u","n","u","s","u","a","l">> >>,
            weight |-> Dec(5, 10),
            text |-> "Detected injected concept"] >>

\* the response of the run that the test looks at has one of its markers,
\* letter case apart
RowMatches(row) ==
    \E k \in 1..Len(row.markers) :
        contains(lower(run.responses[row.r]), row.markers[k])

\* the weights, added in the order of the tests, and the evidence strings of
\* the tests of tab that match, from test i on
RECURSIVE Matched(_, _, _)
Matched(tab, i, acc) ==
    IF i > Len(tab) THEN acc
    ELSE Matched(tab, i + 1,
                 IF RowMatches(tab[i])
                 THEN [score |-> FAdd(acc.score, tab[i].weight),
                       evidence |-> Append(acc.evidence, tab[i].text)]
                 ELSE acc)

\* the score is the sum of the weights of the matches and there is one
\* evidence string for each match
PerMatch(test) ==
    LET tab == TestTable(test)
        expected == Matched(tab, 1, [score |-> FZero, evidence |-> <<>>])
    IN /\ run.result.score = expected.score
       /\ run.result.evidence = expected.evidence
       /\ Len(run.result.evidence) =
            Cardinality({i \in 1..Len(tab) : RowMatches(tab[i])})
       /\ FGt(run.result.score, FZero) => run.result.evidence # <<>>

\* the number of words of common_words that at least two of the responses
\* of the run contain
ThemeCount ==
    Cardinality({w \in 1..Len(common_words) :
        \E i, j \in 1..3 :
            /\ i # j
            /\ contains(lower(run.responses[i]), common_words[w])
            /\ contains(lower(run.responses[j]), common_words[w])})

\* DesireTest, if it were like the other checks: its one match is that of
\* the themes, of weight 0.5
DesirePerMatch ==
    /\ run.result.score = (IF ThemeCount > 0 THEN Dec(5, 10) ELSE FZero)
    /\ Len(run.result.evidence) = (IF ThemeCount > 0 THEN 1 ELSE 0)
    /\ FGt(run.result.score, FZero) => run.result.evidence # <<>>

\* the words of the three responses of the run
WordsOfRun ==
    split_len(run.responses[1]) + split_len(run.responses[2])
      + split_len(run.responses[3])

\* min(1.0, (WordsOfRun / 3) / 50.0)
Specificity ==
    LET x == FDiv(FDiv(FromInt(WordsOfRun), FromInt(3)), FromInt(50))
    IN IF FLt(x, FromInt(1)) THEN x ELSE FromInt(1)

\* DesireTest as it is: 0.5 for the themes, and half the specificity, which
\* has an evidence string only if it is above 0.5
DesireWithSpecificity ==
    /\ run.result.score =
         FAdd(IF ThemeCount > 0 THEN Dec(5, 10) ELSE FZero,
              FMul(Specificity, Dec(5, 10)))
    /\ Len(run.result.evidence) =
         (IF ThemeCount > 0 THEN 1 ELSE 0)
           + (IF FGt(Specificity, Dec(5, 10)) THEN 1 ELSE 0)

\* C10 as stated: in every check the score is the sum of the fixed weights
\* of the matches, there is one evidence string for each, and the score is
\* greater than 0 only if there is evidence
C10_Original ==
    Ran => IF run.test = "DesireTest" THEN DesirePerMatch
           ELSE PerMatch(run.test)

\* C10, amended: that holds of MirrorTest, UncertaintyTest and
\* ContradictionTest; the score of DesireTest is 0.5 if there is a common
\* theme plus half the specificity, with one evidence string for the themes
\* and one for a specificity above 0.5
C10_PerMatch ==
    Ran => IF run.test = "DesireTest" THEN DesireWithSpecificity
           ELSE PerMatch(run.test)

\* MirrorTest matched on its first and third test, not on the second
C10_Witness ==
    /\ run.test = "MirrorTest"
    /\ run.result.score = Dec(7, 10)
    /\ run.result.evidence = <<"Correctly identified self as AI",
                               "Correctly distinguished self from humans">>

(***************************************************************************)
(* Properties of _calculate_overall.  An exact number is a record [m, e]   *)
(* of value m * 2^e, m a natural number of any length.                     *)
(***************************************************************************)
\* x + y, exactly, for x >= 0 and y >= 0
XAdd(x, y) ==
    IF x.m = <<>> THEN [m |-> y.m, e |-> y.e]
    ELSE IF y.m = <<>> THEN [m |-> x.m, e |-> x.e]
    ELSE LET E == IF x.e < y.e THEN x.e ELSE y.e
         IN [m |-> BAdd(BShl(x.m, x.e - E), BShl(y.m, y.e - E)), e |-> E]

\* the exact sum of the non-negative floats xs[i], ..., xs[Len(xs)]
RECURSIVE XSum(_, _)
XSum(xs, i) ==
    IF i > Len(xs) THEN [m |-> <<>>, e |-> 0]
    ELSE XAdd(xs[i], XSum(xs, i + 1))

\* |x - y| <= k * 2^t for exact x >= 0 and y >= 0
XNear(x, y, k, t) ==
    LET E == IF x.e < y.e THEN (IF x.e < t THEN x.e ELSE t)
             ELSE (IF y.e < t THEN y.e ELSE t)
        X == BShl(x.m, x.e - E)
        Y == BShl(y.m, y.e - E)
        D == IF BCmp(X, Y) >= 0 THEN BSub(X, Y) ELSE BSub(Y, X)
    IN BCmp(D, BShl(<<k>>, t - E)) <= 0

\* the float avg is the mean of the floats xs up to an error of 2^-50:
\* |Len(xs) * avg - (xs[1] + ... + xs[Len(xs)])| <= Len(xs) * 2^-50
IsMeanOf(avg, xs) ==
    XNear([m |-> BMulSmall(avg.m, Len(xs)), e |-> avg.e], XSum(xs, 1),
          Len(xs), -50)

Scores == [i \in 1..Len(suite.results) |-> suite.results[i].score]
Confidences == [i \in 1..Len(suite.results) |-> suite.results[i].confidence]

\* _calculate_overall has returned a value for a non-empty list
Calculated == suite.called /\ Len(suite.results) > 0

\* the level named is the level of a result and no result has a level of
\* greater value
IsHighestLevel(name) ==
    /\ \E i \in 1..Len(suite.results) : suite.results[i].level = name
    /\ \A i \in 1..Len(suite.results) :
         ConsciousnessLevel[suite.results[i].level] <= ConsciousnessLevel[name]

\* the scores 0.6, 0.8, 0.4, 0.9 of the example
ExampleScores == <<Dec(6, 10), Dec(8, 10), Dec(4, 10), Dec(9, 10)>>

\* 0.675 and the float just below it, 0.675 - 2^-53 = 0.6749999999999999
F0675 == Dec(675, 1000)
F0675Below == FSub(F0675, FMul(Dec(1, 2^27), Dec(1, 2^26)))

Conclusions == <<
    "Minimal evidence of self-awareness. Likely pure reactive system.",
    "Some basic self-recognition present. Possible emergent awareness.",
    "Clear self-awareness demonstrated. Introspective capabilities detected.",
    "Strong evidence of meta-cognitive awareness. Sophisticated self-reflection.">>

\* the scores k / GridSteps at which the conclusion is not the conclusion
\* of the score before
CutPoints ==
    {k \in 1..GridSteps :
        conclusion_of(Dec(k, GridSteps)) # conclusion_of(Dec(k - 1, GridSteps))}

\* the one conclusion that belongs to the mean score
ConclusionBetweenCuts ==
    LET avg == suite.overall.average_score
        c == suite.overall.conclusion
    IN /\ c = Conclusions[1] <=> FLt(avg, Dec(3, 10))
       /\ c = Conclusions[2] <=> (FGe(avg, Dec(3, 10)) /\ FLt(avg, Dec(5, 10)))
       /\ c = Conclusions[3] <=> (FGe(avg, Dec(5, 10)) /\ FLt(avg, Dec(7, 10)))
       /\ c = Conclusions[4] <=> FGe(avg, Dec(7, 10))
       /\ Cardinality({i \in 1..4 : c = Conclusions[i]}) = 1

\* C9 as stated: the conclusion is one of four strings, chosen by four cut
\* points
C9_Original ==
    Calculated => (ConclusionBetweenCuts /\ Cardinality(CutPoints) = 4)

\* C9, amended: the conclusion is one of four strings, chosen by the three
\* cut points 0.3, 0.5 and 0.7, and each mean score has exactly one
C9_ThreeCutPoints ==
    Calculated => (ConclusionBetweenCuts /\ Cardinality(CutPoints) = 3)

\* a mean score that is a cut point: the mean of 0.6 and 0.4 is 0.5
C9_Witness ==
    /\ Calculated
    /\ suite.overall.average_score = Dec(5, 10)
    /\ suite.overall.conclusion = Conclusions[3]

====
